---- MODULE Spec2Model ----
(***************************************************************************)
(* The iteration drivers of optimistix (optimistix/_iterate.py run under   *)
(* the bounded loop of optimistix/adjoint.py, and the legacy jaxopt driver *)
(* jaxopt/root_find.py) together with the init/step/terminate of the       *)
(* nonlinear solvers they drive.                                           *)
(*                                                                         *)
(* Floating point scalars are extended rationals (finite n/d, +inf, -inf,  *)
(* NaN) with the IEEE rules for 0/0, x/0, inf-inf and 0*inf.  diffsize is  *)
(* stored in units of half the resolution 10^(2-precision) of _small.      *)
(***************************************************************************)
EXTENDS Integers, Sequences, FiniteSets, TLC

\* ---------------------------------------------------------------- bounds
\* largest finite max_steps a caller passes
MaxSteps == 3
\* largest value of the iterate y
MaxY == 1
\* extra iterations explored past MaxSteps when a loop has no bound
Overrun == 2

StepCap == MaxSteps + Overrun

\* ------------------------------------------------------- extended reals
NaN == -1
Inf == -2

FNan == [k |-> "nan", n |-> 0, d |-> 1]
FInf == [k |-> "inf", n |-> 0, d |-> 1]
FNegInf == [k |-> "ninf", n |-> 0, d |-> 1]
Fin(n, d) == [k |-> "fin", n |-> n, d |-> d]

\* a stored scalar (natural number, NaN or Inf marker) as an extended real
ToF(x) == IF x = NaN THEN FNan ELSE IF x = Inf THEN FInf ELSE Fin(x, 1)

FSign(a) ==
  IF a.k = "inf" THEN 1
  ELSE IF a.k = "ninf" THEN -1
  ELSE IF a.n > 0 THEN 1 ELSE IF a.n < 0 THEN -1 ELSE 0

FSigned(s) == IF s > 0 THEN FInf ELSE FNegInf

FIsFinite(a) == a.k = "fin"

FAbs(a) ==
  IF a.k = "nan" THEN FNan
  ELSE IF a.k = "fin" THEN Fin(IF a.n < 0 THEN -a.n ELSE a.n, a.d)
  ELSE FInf

FDiv(a, b) ==
  IF a.k = "nan" \/ b.k = "nan" THEN FNan
  ELSE IF a.k = "fin" /\ b.k = "fin" THEN
    IF b.n = 0 THEN (IF a.n = 0 THEN FNan ELSE FSigned(a.n))
    ELSE IF b.n > 0 THEN Fin(a.n * b.d, a.d * b.n)
    ELSE Fin(-(a.n * b.d), a.d * (-b.n))
  ELSE IF a.k = "fin" THEN Fin(0, 1)
  ELSE IF b.k = "fin" THEN FSigned(FSign(a) * (IF b.n < 0 THEN -1 ELSE 1))
  ELSE FNan

FMul(a, b) ==
  IF a.k = "nan" \/ b.k = "nan" THEN FNan
  ELSE IF a.k = "fin" /\ b.k = "fin" THEN Fin(a.n * b.n, a.d * b.d)
  ELSE IF FSign(a) = 0 \/ FSign(b) = 0 THEN FNan
  ELSE FSigned(FSign(a) * FSign(b))

FAdd(a, b) ==
  IF a.k = "nan" \/ b.k = "nan" THEN FNan
  ELSE IF a.k = "fin" /\ b.k = "fin" THEN Fin(a.n * b.d + b.n * a.d, a.d * b.d)
  ELSE IF a.k = "fin" THEN b
  ELSE IF b.k = "fin" THEN a
  ELSE IF a.k = b.k THEN a
  ELSE FNan

FNeg(a) ==
  IF a.k = "nan" THEN FNan
  ELSE IF a.k = "fin" THEN Fin(-a.n, a.d)
  ELSE IF a.k = "inf" THEN FNegInf ELSE FInf

FSub(a, b) == FAdd(a, FNeg(b))

\* a < b; every comparison with NaN is false
FLt(a, b) ==
  IF a.k = "nan" \/ b.k = "nan" THEN FALSE
  ELSE IF a.k = "fin" /\ b.k = "fin" THEN a.n * b.d < b.n * a.d
  ELSE IF a.k = "ninf" THEN b.k # "ninf"
  ELSE IF b.k = "inf" THEN a.k # "inf"
  ELSE FALSE

FGt(a, b) == FLt(b, a)

\* ---------------------------------------------------------- result codes
\* optimistix/solution.py RESULTS
RESULTS == {"successful", "max_steps_reached", "linear_singular",
            "nonlinear_divergence"}

\* the message each member of RESULTS is declared with
RESULTS_message ==
  [r \in RESULTS |->
     IF r = "successful" THEN ""
     ELSE IF r = "max_steps_reached"
       THEN "The maximum number of solver steps was reached. Try increasing max_steps."
     ELSE IF r = "linear_singular" THEN "The linear solver returned NaN output."
     ELSE "Nonlinear solve diverged."]

\* ------------------------------------------------------ the user problem
YVals == 0..MaxY

\* objective / residual norm of the modelled problem at y
Fn(y) == (y - 1) * (y - 1)

\* the aux the modelled problem returns at y (never the zero aux)
AuxAt(y) == y + 1

\* values a step's diffsize takes: NaN, small (0, 1), and larger ones that
\* make rate > 2, rate < 1 with factor < kappa, and rate < 1 with factor >= kappa
DiffVals == {NaN, 0, 1, 3, 20, 21}

\* ------------------------------------------------ termination predicates
\* 10^(2 - precision), in diffsize units
Resolution == 2
\* kappa / converged_tol = 1e-2, in diffsize units (float32: 1e-2 / 0.5e-4)
Kappa == 200
\* solver tolerances (caller-chosen fields rtol, atol)
Rtol == 1
Atol == 1

Small(diffsize) == FLt(diffsize, Fin(Resolution, 1))

\* _diverged of jaxopt/solver/newton.py and gauss_newton_levenberg_marquardt.py
DivergedRate(rate) == ~FIsFinite(rate) \/ FGt(rate, Fin(2, 1))

\* _diverged of levenberg_marquardt_gauss_newton.py and nonlinear_cg.py
DivergedNonFinite(rate) == ~FIsFinite(rate)

Converged(factor, tol) == FGt(factor, Fin(0, 1)) /\ FLt(factor, tol)

Rate(state) == FDiv(ToF(state.diffsize), ToF(state.diffsize_prev))

Factor(state) ==
  FDiv(FMul(ToF(state.diffsize), Rate(state)), FSub(Fin(1, 1), Rate(state)))

\* ------------------------------------------------------------ the solvers
\* Newton and Chord are the legacy root finders of jaxopt/solver/newton.py;
\* GaussNewtonLevenbergMarquardt is solver/gauss_newton_levenberg_marquardt.py;
\* AbstractGaussNewton is solver/levenberg_marquardt_gauss_newton.py;
\* GradientDescent is _solver/gradient_methods.py; GradOnly (and NonlinearCG)
\* is solver/nonlinear_cg.py; AbstractIterativeSolver is the interface of
\* _iterate.py with uninterpreted init, step and terminate.
LegacySolvers == {"Newton", "Chord"}
RepoIterativeSolvers == {"GaussNewtonLevenbergMarquardt", "AbstractGaussNewton",
                         "GradientDescent", "GradOnly"}
IterativeSolvers == RepoIterativeSolvers \cup {"AbstractIterativeSolver"}
RepoSolvers == LegacySolvers \cup RepoIterativeSolvers

\* linear_state of a Newton state (None)
NoLinearState == -1

\* the static (non-array, non-jaxpr) part of a solver state, as a structure
\* id: InitStatic is the one solver.init returns
StaticVals == {"s0", "s1"}
InitStatic == "s0"

\* ---- init: the states solver.init can return at y
NewtonChordInit(solver, y) ==
  [linear_state |-> IF solver = "Newton" THEN NoLinearState ELSE y,
   step |-> 0, diffsize |-> 0, diffsize_prev |-> 0]

GNLMInit ==
  [step |-> 0, diffsize |-> 0, diffsize_prev |-> 0, result |-> "successful"]

AbstractGaussNewtonInit(y) ==
  [diffsize |-> 0, diffsize_prev |-> 0, result |-> "successful",
   f_val |-> Inf, aux |-> AuxAt(y), step |-> 0]

GradientDescentInit(y) ==
  [y_prev |-> y, f_val |-> Inf, f_prev |-> Inf, result |-> "successful"]

GradOnlyInit ==
  [diffsize |-> 0, diffsize_prev |-> 0, result |-> "successful",
   f_val |-> Inf, aux |-> Inf, step |-> 0]

AbstractSolverStates == [stop : BOOLEAN, result : RESULTS]

SolverInit(solver, y) ==
  CASE solver \in LegacySolvers -> {NewtonChordInit(solver, y)}
    [] solver = "GaussNewtonLevenbergMarquardt" -> {GNLMInit}
    [] solver = "AbstractGaussNewton" -> {AbstractGaussNewtonInit(y)}
    [] solver = "GradientDescent" -> {GradientDescentInit(y)}
    [] solver = "GradOnly" -> {GradOnlyInit}
    [] OTHER -> AbstractSolverStates

\* ---- terminate: [stop, result]
\* a terminate gated on one step instead of two
NewtonChordTerminate_one_step(state) ==
  LET at_least_two == state.step >= 1
      rate == Rate(state)
      factor == Factor(state)
      small == Small(ToF(state.diffsize))
      diverged == DivergedRate(rate)
      converged == Converged(factor, Fin(Kappa, 1))
      result0 == IF converged THEN "successful" ELSE "nonconvergence"
      result1 == IF diverged THEN "divergence" ELSE result0
      result2 == IF small THEN "successful" ELSE result1
  IN [stop |-> at_least_two /\ (small \/ diverged \/ converged),
      result |-> result2]

\* a terminate whose divergence code overrides the small one
NewtonChordTerminate_diverged_first(state) ==
  LET at_least_two == state.step >= 2
      rate == Rate(state)
      factor == Factor(state)
      small == Small(ToF(state.diffsize))
      diverged == DivergedRate(rate)
      converged == Converged(factor, Fin(Kappa, 1))
      result0 == IF converged THEN "successful" ELSE "nonconvergence"
      result1 == IF small THEN "successful" ELSE result0
      result2 == IF diverged THEN "divergence" ELSE result1
  IN [stop |-> at_least_two /\ (small \/ diverged \/ converged),
      result |-> result2]

\* the optimistix name of a code of jaxopt/results.py
LegacyName(code) ==
  IF code = "divergence" THEN "nonlinear_divergence" ELSE code

NewtonChordTerminate(state) ==
  LET at_least_two == state.step >= 2
      rate == Rate(state)
      factor == Factor(state)
      small == Small(ToF(state.diffsize))
      diverged == DivergedRate(rate)
      converged == Converged(factor, Fin(Kappa, 1))
      result0 == IF converged THEN "successful" ELSE "nonconvergence"
      result1 == IF diverged THEN "divergence" ELSE result0
      result2 == IF small THEN "successful" ELSE result1
  IN [stop |-> at_least_two /\ (small \/ diverged \/ converged),
      result |-> result2]

\* the terminate shared by the three Gauss-Newton style solvers:
\* gate is step >= 2 (step > 2 for GradOnly), diverged is the file's _diverged
GaussNewtonStyleTerminate(state, at_least_two, diverged) ==
  LET factor == Factor(state)
      small == Small(ToF(state.diffsize))
      converged == Converged(factor, Fin(Kappa, 1))
      linsolve_fail == state.result # "successful"
      result0 == IF diverged THEN "nonlinear_divergence" ELSE "successful"
  IN [stop |-> linsolve_fail \/ (at_least_two /\ (small \/ diverged \/ converged)),
      result |-> IF linsolve_fail THEN state.result ELSE result0]

GNLMTerminate(state) ==
  GaussNewtonStyleTerminate(state, state.step >= 2, DivergedRate(Rate(state)))

AbstractGaussNewtonTerminate(state) ==
  GaussNewtonStyleTerminate(state, state.step >= 2, DivergedNonFinite(Rate(state)))

GradOnlyTerminate(state) ==
  GaussNewtonStyleTerminate(state, state.step > 2, DivergedNonFinite(Rate(state)))

\* _solver/misc.py cauchy_termination on scalars (norm of a scalar = it)
cauchy_termination(rtol, atol, y_prev, y_diff, f_val, f_prev, result) ==
  LET f_diff == FSub(f_val, f_prev)
      y_scale == FAdd(Fin(atol, 1), FMul(Fin(rtol, 1), FAbs(y_prev)))
      f_scale == FAdd(Fin(atol, 1), FMul(Fin(rtol, 1), FAbs(f_prev)))
      y_converged == FLt(FDiv(FAbs(y_diff), y_scale), Fin(1, 1))
      f_converged == FLt(FDiv(FAbs(f_diff), f_scale), Fin(1, 1))
  IN [stop |-> (result # "successful") \/ (y_converged /\ f_converged),
      result |-> result]

GradientDescentTerminate(y, state) ==
  cauchy_termination(Rtol, Atol, ToF(y), FSub(ToF(y), ToF(state.y_prev)),
                     ToF(state.f_val), ToF(state.f_prev), state.result)

\* ---- BacktrackingArmijo (solver/backtracking.py), a line search run by
\* minimise on the one-dimensional problem delta -> f(y + delta * d).  Its
\* iterate y is the trial step size, an extended real.
\* the fields backtrack_slope and decrease_factor (the values the
\* BacktrackingArmijo solvers of levenberg_marquardt_gauss_newton.py pass)
backtrack_slope == Fin(1, 10)
decrease_factor == Fin(1, 2)

\* objective values the one-dimensional problem returns
LineFVals == 0..2
\* the step diff the descent returns for a trial, and the gradient
LineDiffVals == {-10, 0, 10}
LineGradVals == {-1, 0, 1}

\* what options holds: f0 (or no such key) and compute_f0 (or no such key)
NoKey == -3
LineOptions == [f0 : {NoKey, 1}, compute_f0 : {NoKey, 0, 1}, vector : LineGradVals]

BacktrackingArmijoInit(options) ==
  LET zeros == Fin(0, 1)
      f0 == IF options.f0 = NoKey THEN zeros ELSE Fin(options.f0, 1)
      compute_f0 == IF options.f0 = NoKey \/ options.compute_f0 = NoKey THEN TRUE
                    ELSE options.compute_f0 = 1
  IN [f_delta |-> f0, f0 |-> f0, vector |-> options.vector, diff |-> 0,
      compute_f0 |-> compute_f0, result |-> "successful", step |-> 0]

FMin(a, b) ==
  IF a.k = "nan" \/ b.k = "nan" THEN FNan ELSE IF FLt(b, a) THEN b ELSE a

\* the right-hand side of the test of terminate:
\* f0 + backtrack_slope * min(<grad, diff>, 0)
ArmijoBound(state) ==
  LET predicted_reduction == FMin(Fin(state.vector * state.diff, 1), Fin(0, 1))
  IN FAdd(state.f0, FMul(backtrack_slope, predicted_reduction))

\* a terminate that needs one evaluation only
BacktrackingArmijoTerminate_one_step(y, state) ==
  [stop |-> FLt(state.f_delta, ArmijoBound(state)) /\ state.step > 0,
   result |-> IF FIsFinite(y) THEN state.result ELSE "nonlinear_divergence"]

BacktrackingArmijoTerminate(y, state) ==
  LET result == IF FIsFinite(y) THEN state.result ELSE "nonlinear_divergence"
      finished == FLt(state.f_delta, ArmijoBound(state))
  IN [stop |-> finished /\ state.step > 1, result |-> result]

SolverTerminate(solver, y, state) ==
  CASE solver \in LegacySolvers -> NewtonChordTerminate(state)
    [] solver = "BacktrackingArmijo" -> BacktrackingArmijoTerminate(y, state)
    [] solver = "GaussNewtonLevenbergMarquardt" -> GNLMTerminate(state)
    [] solver = "AbstractGaussNewton" -> AbstractGaussNewtonTerminate(state)
    [] solver = "GradientDescent" -> GradientDescentTerminate(y, state)
    [] solver = "GradOnly" -> GradOnlyTerminate(state)
    [] OTHER -> [stop |-> state.stop, result |-> state.result]

\* ---- step: what one call of solver.step returns.  in is what the problem and
\* the inner solves produce during the call: new_y (the next iterate),
\* diffsize (the scaled size of the move), inner (the result code of the
\* linear solve, or of the line search for the two gradient solvers) and, for
\* the uninterpreted solver, stop.  raised: the call ended in an exception.
StepInputs ==
  [new_y : YVals, diffsize : DiffVals, inner : RESULTS, stop : BOOLEAN,
   static : StaticVals, f_delta : LineFVals, diff : LineDiffVals]

\* the inputs one solver's step reads: only the uninterpreted solver reads
\* stop, neither it nor GradientDescent computes a diffsize, and
\* BacktrackingArmijo computes its next iterate and reads f_delta and diff
StepInputsOf(slv) ==
  [new_y : IF slv = "BacktrackingArmijo" THEN {0} ELSE YVals,
   diffsize : IF slv \in {"AbstractIterativeSolver", "GradientDescent",
                           "BacktrackingArmijo"}
              THEN {0} ELSE DiffVals,
   inner : RESULTS,
   stop : IF slv = "AbstractIterativeSolver" THEN BOOLEAN ELSE {FALSE},
   static : IF slv = "AbstractIterativeSolver" THEN StaticVals ELSE {InitStatic},
   f_delta : IF slv = "BacktrackingArmijo" THEN LineFVals ELSE {0},
   diff : IF slv = "BacktrackingArmijo" THEN LineDiffVals ELSE {0}]

\* the static part of the state a step returns: the repository solvers
\* rebuild their state with the static fields of the state passed in
step_static(slv, static, in) ==
  IF slv = "AbstractIterativeSolver" THEN in.static ELSE static

StepRaised(y, state, aux) == [raised |-> TRUE, y |-> y, state |-> state, aux |-> aux]

StepReturn(y, state, aux) == [raised |-> FALSE, y |-> y, state |-> state, aux |-> aux]

\* linear_solve is called without throw=False, so a failed solve raises there;
\* the state has no result field.  The legacy carry has no aux.
\* a step that factorises the Jacobian again at the current y
NewtonChordStep_refactorise(solver, y, state, in) ==
  IF in.inner # "successful" THEN StepRaised(y, state, 0)
  ELSE StepReturn(in.new_y,
                  [linear_state |-> IF solver = "Newton" THEN NoLinearState ELSE y,
                   step |-> state.step + 1,
                   diffsize |-> in.diffsize,
                   diffsize_prev |-> state.diffsize],
                  0)
       @@ [solved_against |-> y]

\* solved_against: the point whose Jacobian the linear solve of the step
\* uses, the current y for Newton and the cached linear_state for Chord
NewtonChordStep(solver, y, state, in) ==
  IF in.inner # "successful" THEN StepRaised(y, state, 0)
  ELSE StepReturn(in.new_y,
                  [linear_state |-> state.linear_state,
                   step |-> state.step + 1,
                   diffsize |-> in.diffsize,
                   diffsize_prev |-> state.diffsize],
                  0)
       @@ [solved_against |-> IF solver = "Newton" THEN y ELSE state.linear_state]

GNLMStep(y, state, in) ==
  StepReturn(in.new_y,
             [step |-> state.step + 1,
              diffsize |-> in.diffsize,
              diffsize_prev |-> state.diffsize,
              result |-> in.inner],
             AuxAt(y))

\* a step that returns the aux the line search ended on
AbstractGaussNewtonStep_new_aux(y, state, in) ==
  StepReturn(in.new_y,
             [diffsize |-> in.diffsize,
              diffsize_prev |-> state.diffsize,
              result |-> "successful",
              f_val |-> Fn(in.new_y),
              aux |-> AuxAt(in.new_y),
              step |-> state.step + 1],
             AuxAt(in.new_y))

\* the line search runs with throw=False and its result is dropped
AbstractGaussNewtonStep(y, state, in) ==
  StepReturn(in.new_y,
             [diffsize |-> in.diffsize,
              diffsize_prev |-> state.diffsize,
              result |-> "successful",
              f_val |-> Fn(in.new_y),
              aux |-> AuxAt(in.new_y),
              step |-> state.step + 1],
             state.aux)

GradientDescentStep(y, state, in) ==
  LET f_val == Fn(y)
      result == IF in.inner = "max_steps_reached" THEN "successful" ELSE in.inner
  IN StepReturn(in.new_y,
                [y_prev |-> y, f_val |-> f_val, f_prev |-> state.f_val,
                 result |-> result],
                AuxAt(y))

\* main_pass calls minimise with its default throw=True
GradOnlyStep(y, state, in) ==
  IF state.step = 0
  THEN StepReturn(y,
                  [diffsize |-> 0, diffsize_prev |-> state.diffsize,
                   result |-> "successful", f_val |-> Inf,
                   aux |-> state.aux, step |-> state.step + 1],
                  state.aux)
  ELSE IF in.inner # "successful" THEN StepRaised(y, state, state.aux)
  ELSE LET result == IF in.inner = "max_steps_reached" THEN "successful"
                     ELSE in.inner
       IN StepReturn(in.new_y,
                     [diffsize |-> in.diffsize, diffsize_prev |-> state.diffsize,
                      result |-> result, f_val |-> Fn(in.new_y),
                      aux |-> AuxAt(in.new_y), step |-> state.step + 1],
                     AuxAt(in.new_y))

AbstractSolverStep(y, state, in) ==
  StepReturn(in.new_y, [stop |-> in.stop, result |-> in.inner], AuxAt(y))

\* problem.fn is evaluated at delta, which is 0 on the compute_f0 pass;
\* the new iterate is _delta on every pass
BacktrackingArmijoStep(y, state, in) ==
  LET delta0 == FMul(y, decrease_factor)
      delta == IF state.compute_f0 THEN Fin(0, 1) ELSE delta0
      f_delta == Fin(in.f_delta, 1)
      f0 == IF state.compute_f0 THEN f_delta ELSE state.f0
  IN StepReturn(delta0,
                [f_delta |-> f_delta, f0 |-> f0, vector |-> state.vector,
                 diff |-> in.diff, compute_f0 |-> FALSE, result |-> in.inner,
                 step |-> state.step + 1],
                [f_delta |-> f_delta, diff |-> in.diff, result |-> in.inner,
                 delta |-> delta])

SolverStep(solver, y, state, in) ==
  CASE solver \in LegacySolvers -> NewtonChordStep(solver, y, state, in)
    [] solver = "BacktrackingArmijo" -> BacktrackingArmijoStep(y, state, in)
    [] solver = "GaussNewtonLevenbergMarquardt" -> GNLMStep(y, state, in)
    [] solver = "AbstractGaussNewton" -> AbstractGaussNewtonStep(y, state, in)
    [] solver = "GradientDescent" -> GradientDescentStep(y, state, in)
    [] solver = "GradOnly" -> GradOnlyStep(y, state, in)
    [] OTHER -> AbstractSolverStep(y, state, in)

\* ------------------------------------------------------------ the drivers
\* max_steps = None
None == -1

\* "iterate": optimistix/_iterate.py under adjoint._while_loop;
\* "solve_reverse" / "solve_forward": the reverse_autodiffable and the other
\* branch of jaxopt/root_find.py _solve
Drivers == {"iterate", "solve_reverse", "solve_forward"}

VARIABLES
  solver,      \* the solver kind passed in
  driver,      \* which driver runs the solve
  max_steps,   \* None or a natural number
  throw,       \* the throw flag
  y0,          \* the initial iterate
  pc,          \* "cond", "body", "final", "solved", "returned", "raised",
               \* "step_raised", "assert_failed"
  step,        \* the step counter of the bounded loop's own carry
  carry,       \* (y, num_steps, state, aux)
  init_state,  \* the array-valued part of the state solver.init returned
  static_state, \* the static (non-array) part of the state solver.init returned
  cond_val,    \* the last value of the loop condition
  result,      \* the final result code
  sol,         \* the Solution, once built
  error,       \* the error raised, if any
  steps_run,   \* history: number of solver.step calls made
  stepped_on_stop, \* history: solver.step was called on a (y, state) with stop
  last_inner,  \* history: the inner result code of the last solver.step call
  last_step,   \* history: what the last solver.step call returned
  last_static, \* history: the static part of the state the last step returned
  lin_pc,      \* linear_solve: "idle", "start", "compute", "result", "returned", "raised"
  lin_in,      \* linear_solve: its arguments (operator, vector, solver, state, throw)
  lin_state,   \* linear_solve: the solver state in use
  lin_out,     \* linear_solve: what solver.compute returned
  lin_sol,     \* linear_solve: the value returned
  lin_error,   \* linear_solve: the error raised
  call_pc,     \* a single call of an entry point or method: "idle", "start", "root_find", "done"
  call_in,     \* its arguments
  call_out     \* what it returned or raised

solve_vars == <<solver, driver, max_steps, throw, y0, pc, step, carry, init_state,
                static_state, cond_val, result, sol, error, steps_run, stepped_on_stop,
                last_inner, last_step, last_static>>

linear_vars == <<lin_pc, lin_in, lin_state, lin_out, lin_sol, lin_error>>

\* the variables of the other entry points, which a nonlinear solve leaves alone
call_vars == <<call_pc, call_in, call_out>>

rest_vars == <<linear_vars, call_vars>>

vars == <<solve_vars, rest_vars>>

inputs == <<solver, driver, max_steps, throw, y0, init_state, static_state>>

NoSolution == [built |-> FALSE]
NoError == [kind |-> "none", message |-> ""]
NoStep == [raised |-> FALSE, called |-> FALSE]
NoLinear == [built |-> FALSE]
NoCall == [called |-> FALSE]

\* no single call is in progress
CallIdle == call_pc = "idle" /\ call_in = NoCall /\ call_out = NoCall

\* no linear_solve call is in progress
LinearIdle ==
  /\ lin_pc = "idle"
  /\ lin_in = NoLinear
  /\ lin_state = NoLinear
  /\ lin_out = NoLinear
  /\ lin_sol = NoLinear
  /\ lin_error = NoError

\* _iterate line 119 (init_aux is the zero-filled aux); _solve line 41
init_carry(y_init, state0) == [y |-> y_init, num_steps |-> 0, state |-> state0, aux |-> 0]

Init ==
  /\ driver \in Drivers
  /\ solver \in (IF driver = "iterate" THEN IterativeSolvers ELSE LegacySolvers)
  /\ max_steps \in {None} \cup (0..MaxSteps)
  /\ throw \in BOOLEAN
  /\ y0 \in YVals
  /\ init_state \in SolverInit(solver, y0)
  /\ static_state = InitStatic
  /\ carry = init_carry(y0, init_state)
  /\ pc = "cond"
  /\ step = 0
  /\ cond_val = FALSE
  /\ result = "successful"
  /\ sol = NoSolution
  /\ error = NoError
  /\ steps_run = 0
  /\ stepped_on_stop = FALSE
  /\ last_inner = "none"
  /\ last_step = NoStep
  /\ last_static = InitStatic
  /\ LinearIdle
  /\ CallIdle

\* cond_fun of _iterate (lines 121-125) and of _solve (lines 43-46)
cond_fun(val) == ~SolverTerminate(solver, val.y, val.state).stop

\* a bounded loop that tests only its counter, as a do-while would
while_loop_cond_counter_only(bound, loop_step, val) ==
  IF bound = None THEN cond_fun(val) ELSE loop_step < bound

\* a bounded loop whose counter test is off by one
while_loop_cond_off_by_one(bound, loop_step, val) ==
  IF bound = None THEN cond_fun(val)
  ELSE (loop_step <= bound) /\ cond_fun(val)

\* adjoint._while_loop: lax.while_loop on cond_fun when max_steps is None,
\* else on (step < max_steps) & cond_fun(val)
while_loop_cond(bound, loop_step, val) ==
  IF bound = None THEN cond_fun(val)
  ELSE (loop_step < bound) /\ cond_fun(val)

\* the bound each driver hands to its loop: _solve's other branch builds
\* _cond_fun but passes cond_fun with max_steps=None
loop_bound(drv, bound) == IF drv = "solve_forward" THEN None ELSE bound

\* a body that compares nothing
static_unchanged_unchecked(drv, static, new_static) == TRUE

\* the assertion of _iterate's body_fun (lines 133-137); _solve has none
static_unchanged(drv, static, new_static) ==
  drv # "iterate" \/ static = new_static

AssertionError == [kind |-> "AssertionError", message |-> ""]

\* body_fun of _iterate (lines 127-138) and of _solve (lines 48-51)
body_fun(val, out) ==
  [y |-> out.y, num_steps |-> val.num_steps + 1, state |-> out.state,
   aux |-> out.aux]

\* a driver that reports the step cap whenever the solver's code is successful
final_result_cap_on_success(terminate, res) ==
  IF res = "successful" THEN "max_steps_reached" ELSE res

\* a driver that reports the step cap whenever terminate has not stopped
final_result_cap_wins(terminate, res) ==
  IF ~terminate THEN "max_steps_reached" ELSE res

\* a driver that returns the solver's code as it is
final_result_unchanged(terminate, res) == res

\* _iterate lines 150-155 and _solve line 66
final_result(terminate, res) ==
  IF res = "successful" /\ ~terminate THEN "max_steps_reached" ELSE res

\* a driver that raises whenever throw is set
raises_whenever_throw(thr, res) == thr

\* iterative_solve lines 182-183; root_find_solve lines 93-97
raises(thr, res) == thr /\ res # "successful"

error_of(res) ==
  [kind |-> res,
   message |-> IF res \in RESULTS THEN RESULTS_message[res] ELSE res]

Solution(val, res) ==
  [built |-> TRUE, value |-> val.y, result |-> res, state |-> val.state,
   aux |-> val.aux, stats |-> [num_steps |-> val.num_steps, max_steps |-> max_steps]]

\* GradOnly's first_pass (state.step = 0) runs no line search; every other
\* step runs its linear solve or line search
inner_runs(slv, state) == ~(slv = "GradOnly" /\ state.step = 0)

\* the loop evaluates its condition
CondFun ==
  /\ pc = "cond"
  /\ cond_val' = while_loop_cond(loop_bound(driver, max_steps), step, carry)
  /\ pc' = IF cond_val' THEN "body" ELSE "final"
  /\ UNCHANGED <<inputs, step, carry, result, sol, error, steps_run,
                 stepped_on_stop, last_inner, last_step, last_static>>
  /\ UNCHANGED rest_vars

\* the loop runs its body: one solver.step
BodyFun ==
  /\ pc = "body"
  /\ carry.num_steps < StepCap
  /\ \E in \in StepInputsOf(solver) :
       LET out == SolverStep(solver, carry.y, carry.state, in)
       IN /\ last_inner' = IF inner_runs(solver, carry.state) THEN in.inner
                          ELSE "none"
          /\ last_step' = [called |-> TRUE] @@ out
          /\ last_static' = IF out.raised THEN last_static
                             ELSE step_static(solver, static_state, in)
          /\ IF out.raised
             THEN /\ pc' = "step_raised"
                  /\ error' = error_of(in.inner)
                  /\ UNCHANGED <<carry, step>>
             ELSE IF ~static_unchanged(driver, static_state,
                                       step_static(solver, static_state, in))
             THEN /\ pc' = "assert_failed"
                  /\ error' = AssertionError
                  /\ UNCHANGED <<carry, step>>
             ELSE /\ pc' = "cond"
                  /\ carry' = body_fun(carry, out)
                  /\ step' = step + 1
                  /\ UNCHANGED error
  /\ steps_run' = steps_run + 1
  /\ stepped_on_stop' =
       (stepped_on_stop \/ SolverTerminate(solver, carry.y, carry.state).stop)
  /\ UNCHANGED <<inputs, cond_val, result, sol>>
  /\ UNCHANGED rest_vars

\* after the loop: the final terminate call and the result code
Finish ==
  /\ pc = "final"
  /\ LET t == SolverTerminate(solver, carry.y, carry.state)
     IN result' = final_result(t.stop, t.result)
  /\ pc' = "solved"
  /\ UNCHANGED <<inputs, step, carry, cond_val, sol, error, steps_run,
                 stepped_on_stop, last_inner, last_step, last_static>>
  /\ UNCHANGED rest_vars

\* iterative_solve / root_find_solve build the Solution and return it
Return ==
  /\ pc = "solved"
  /\ ~raises(throw, result)
  /\ sol' = Solution(carry, result)
  /\ pc' = "returned"
  /\ UNCHANGED <<inputs, step, carry, cond_val, result, error, steps_run,
                 stepped_on_stop, last_inner, last_step, last_static>>
  /\ UNCHANGED rest_vars

\* ... or raise the error of the result code
Raise ==
  /\ pc = "solved"
  /\ raises(throw, result)
  /\ sol' = Solution(carry, result)
  /\ error' = error_of(result)
  /\ pc' = "raised"
  /\ UNCHANGED <<inputs, step, carry, cond_val, result, steps_run,
                 stepped_on_stop, last_inner, last_step, last_static>>
  /\ UNCHANGED rest_vars

Next == CondFun \/ BodyFun \/ Finish \/ Return \/ Raise

Spec == Init /\ [][Next]_vars

\* the trial step sizes a line search is started at
LineY0 == {Fin(2, 1), FInf}

\* A line search: minimise runs BacktrackingArmijo under _iterate
LineSearchInit ==
  /\ driver = "iterate"
  /\ solver = "BacktrackingArmijo"
  /\ max_steps \in {None} \cup (0..MaxSteps)
  /\ throw \in BOOLEAN
  /\ y0 \in LineY0
  /\ \E options \in LineOptions : init_state = BacktrackingArmijoInit(options)
  /\ static_state = InitStatic
  /\ carry = init_carry(y0, init_state)
  /\ pc = "cond"
  /\ step = 0
  /\ cond_val = FALSE
  /\ result = "successful"
  /\ sol = NoSolution
  /\ error = NoError
  /\ steps_run = 0
  /\ stepped_on_stop = FALSE
  /\ last_inner = "none"
  /\ last_step = NoStep
  /\ last_static = InitStatic
  /\ LinearIdle
  /\ CallIdle

LineSearchSpec == LineSearchInit /\ [][Next]_vars

\* The solves of _iterate with the uninterpreted solver (any terminate and
\* step behaviour), GradientDescent and GradOnly, started at y0 = 0 (every
\* later iterate is still any of YVals).  The loop is a sequential
\* program: it keeps running while it can.
InitIterate ==
  /\ Init
  /\ driver = "iterate"
  /\ solver \in {"AbstractIterativeSolver", "GradientDescent", "GradOnly"}
  /\ y0 = 0

FairSpec == InitIterate /\ [][Next]_vars /\ WF_vars(Next)

\* ------------------------------------------------------------ linear_solve
\* largest in_size / out_size of a linear operator
MaxSize == 2

\* no nonlinear solve is in progress
SolveIdle ==
  /\ driver = "iterate" /\ solver = "AbstractIterativeSolver"
  /\ max_steps = None /\ throw = FALSE /\ y0 = 0
  /\ init_state = [stop |-> TRUE, result |-> "successful"]
  /\ static_state = InitStatic
  /\ carry = init_carry(y0, init_state)
  /\ pc = "idle" /\ step = 0 /\ cond_val = FALSE
  /\ result = "successful" /\ sol = NoSolution /\ error = NoError
  /\ steps_run = 0 /\ stepped_on_stop = FALSE
  /\ last_inner = "none" /\ last_step = NoStep /\ last_static = InitStatic

\* an operator: an AbstractLinearOperator with the tags its caller declared,
\* a raw pytree (wrapped in PyTreeLinearOperator, no tags), or the
\* IdentityLinearOperator
TaggedOperators ==
  [kind : {"operator"}, in_size : 1..MaxSize, out_size : 1..MaxSize,
   symmetric : BOOLEAN, maybe_singular : BOOLEAN,
   positive_semidefinite : BOOLEAN, negative_semidefinite : BOOLEAN,
   diagonal : BOOLEAN, tridiagonal : BOOLEAN]

PyTreeOperators ==
  [kind : {"pytree"}, in_size : 1..MaxSize, out_size : 1..MaxSize,
   symmetric : {FALSE}, maybe_singular : {FALSE},
   positive_semidefinite : {FALSE}, negative_semidefinite : {FALSE},
   diagonal : {FALSE}, tridiagonal : {FALSE}]

IdentityOperators ==
  {[kind |-> "identity", in_size |-> n, out_size |-> n,
    symmetric |-> TRUE, maybe_singular |-> FALSE,
    positive_semidefinite |-> TRUE, negative_semidefinite |-> FALSE,
    diagonal |-> TRUE, tridiagonal |-> TRUE] : n \in 1..MaxSize}

Operators == TaggedOperators \cup PyTreeOperators \cup IdentityOperators

\* the linear solvers: the dispatcher of jaxopt/linear_solve.py and the
\* solvers of optimistix/solver
LinearSolvers == {"AutoLinearSolver", "Cholesky", "Diagonal", "Tridiagonal", "QR"}

\* the solvers AutoLinearSolver chooses among (their init and compute are
\* uninterpreted: init keeps the operator, compute returns any code)
AutoSolvers == {"solvers.CG", "solvers.Cholesky", "solvers.LU", "solvers.SVD"}

InitRaised(message) == [raised |-> TRUE, message |-> message]

InitReturn(state) == [raised |-> FALSE, state |-> state]

\* a Cholesky.init that leaves the shape of the matrix unchecked
Cholesky_init_any_shape(operator) ==
  LET is_nsd == operator.negative_semidefinite
  IN IF ~(operator.positive_semidefinite \/ is_nsd)
     THEN InitRaised("Cholesky may only be used for positive or negative definite linear operators")
     ELSE InitReturn([solver |-> "Cholesky", operator |-> operator, is_nsd |-> is_nsd])

Cholesky_init(operator) ==
  LET is_nsd == operator.negative_semidefinite
  IN IF ~(operator.positive_semidefinite \/ is_nsd)
     THEN InitRaised("Cholesky may only be used for positive or negative definite linear operators")
     ELSE IF operator.out_size # operator.in_size
     THEN InitRaised("Cholesky may only be used for linear solves with square matrices")
     ELSE InitReturn([solver |-> "Cholesky", operator |-> operator, is_nsd |-> is_nsd])

Diagonal_init(operator) ==
  IF operator.in_size # operator.out_size
  THEN InitRaised("Diagonal may only be used for linear solves with square matrices")
  ELSE IF ~operator.diagonal
  THEN InitRaised("Diagonal may only be used for linear solves with diagonal matrices")
  ELSE InitReturn([solver |-> "Diagonal", operator |-> operator])

Tridiagonal_init(operator) ==
  IF operator.in_size # operator.out_size
  THEN InitRaised("Tridiagonal may only be used for linear solves with square matrices")
  ELSE IF ~operator.tridiagonal
  THEN InitRaised("Tridiagonal may only be used for linear solves with tridiagonal matrices")
  ELSE InitReturn([solver |-> "Tridiagonal", operator |-> operator])

QR_init(operator) ==
  InitReturn([solver |-> "QR", operator |-> operator,
              transpose |-> operator.in_size > operator.out_size])

\* init of a solver AutoLinearSolver selected
AutoSolver_init(which, operator) ==
  InitReturn([solver |-> which, operator |-> operator])

\* a dispatcher whose symmetric branch tests maybe_singular the wrong way round
AutoLinearSolver_select_inverted(operator) ==
  IF operator.in_size = operator.out_size
  THEN IF operator.symmetric
       THEN IF ~operator.maybe_singular
            THEN [token |-> "CG", solver |-> "solvers.CG"]
            ELSE [token |-> "Cholesky", solver |-> "solvers.Cholesky"]
       ELSE IF operator.maybe_singular
            THEN [token |-> "SVD", solver |-> "solvers.SVD"]
            ELSE [token |-> "LU", solver |-> "solvers.LU"]
  ELSE [token |-> "SVD", solver |-> "solvers.SVD"]

\* the (token, solver) pair AutoLinearSolver.init selects
AutoLinearSolver_select(operator) ==
  IF operator.in_size = operator.out_size
  THEN IF operator.symmetric
       THEN IF operator.maybe_singular
            THEN [token |-> "CG", solver |-> "solvers.CG"]
            ELSE [token |-> "Cholesky", solver |-> "solvers.Cholesky"]
       ELSE IF operator.maybe_singular
            THEN [token |-> "SVD", solver |-> "solvers.SVD"]
            ELSE [token |-> "LU", solver |-> "solvers.LU"]
  ELSE [token |-> "SVD", solver |-> "solvers.SVD"]

AutoLinearSolver_init(operator) ==
  LET sel == AutoLinearSolver_select(operator)
      sub == AutoSolver_init(sel.solver, operator)
  IN InitReturn([solver |-> "AutoLinearSolver", token |-> sel.token,
                 state |-> sub.state])

LinearSolver_init(slv, operator) ==
  CASE slv = "AutoLinearSolver" -> AutoLinearSolver_init(operator)
    [] slv = "Cholesky" -> Cholesky_init(operator)
    [] slv = "Diagonal" -> Diagonal_init(operator)
    [] slv = "Tridiagonal" -> Tridiagonal_init(operator)
    [] OTHER -> QR_init(operator)

\* what the arithmetic of one compute produces: whether the solution holds a
\* NaN and, for the iterative and rank-revealing solvers, the code
ComputeInputs == [has_nans : BOOLEAN, code : RESULTS]

ComputeReturn(ran, state, has_nans, code) ==
  [built |-> TRUE, ran |-> ran, on |-> state, has_nans |-> has_nans,
   result |-> code]

\* compute of Cholesky, Diagonal, Tridiagonal and QR: always RESULTS.successful
Direct_compute(slv, state, in) ==
  ComputeReturn(slv, state, in.has_nans, "successful")

AutoSolver_compute(which, state, in) ==
  ComputeReturn(which, state, in.has_nans, in.code)

AutoLinearSolver_compute(state, in) ==
  LET which == state.token
      slv == CASE which = "CG" -> "solvers.CG"
               [] which = "Cholesky" -> "solvers.Cholesky"
               [] which = "LU" -> "solvers.LU"
               [] which = "SVD" -> "solvers.SVD"
  IN AutoSolver_compute(slv, state.state, in)

LinearSolver_compute(slv, state, in) ==
  IF slv = "AutoLinearSolver" THEN AutoLinearSolver_compute(state, in)
  ELSE Direct_compute(slv, state, in)

\* the arguments of one linear_solve call.  state_given: the caller passes
\* the state an earlier solver.init(operator) returned
LinearInputs ==
  {a \in [operator : Operators, structure_ok : BOOLEAN, solver : LinearSolvers,
          state_given : BOOLEAN, throw : BOOLEAN] :
     /\ a.operator.kind = "pytree" => a.structure_ok
     /\ a.state_given =>
          (a.structure_ok /\ ~LinearSolver_init(a.solver, a.operator).raised)}

\* a NaN check that overrides whatever code the solver returned
linear_result_any_nan(code, has_nans) ==
  IF has_nans THEN "linear_singular" ELSE code

\* linear_solve line 119
linear_result(code, has_nans) ==
  IF code = "successful" /\ has_nans THEN "linear_singular" ELSE code

ValueError(message) == [kind |-> "ValueError", message |-> message]

\* linear_solve lines 106-116: the structure checks and solver.init
LinearStart ==
  /\ lin_pc = "start"
  /\ IF lin_in.state_given
     THEN /\ lin_state' = LinearSolver_init(lin_in.solver, lin_in.operator).state
          /\ lin_pc' = "compute"
          /\ UNCHANGED <<lin_sol, lin_error>>
     ELSE IF lin_in.operator.kind # "pytree" /\ ~lin_in.structure_ok
     THEN /\ lin_error' = ValueError("Vector and operator structures do not match")
          /\ lin_pc' = "raised"
          /\ UNCHANGED <<lin_state, lin_sol>>
     ELSE IF lin_in.operator.kind = "identity"
     THEN /\ lin_sol' = [built |-> TRUE, kind |-> "vector"]
          /\ lin_pc' = "returned"
          /\ UNCHANGED <<lin_state, lin_error>>
     ELSE LET init == LinearSolver_init(lin_in.solver, lin_in.operator)
          IN IF init.raised
             THEN /\ lin_error' = ValueError(init.message)
                  /\ lin_pc' = "raised"
                  /\ UNCHANGED <<lin_state, lin_sol>>
             ELSE /\ lin_state' = init.state
                  /\ lin_pc' = "compute"
                  /\ UNCHANGED <<lin_sol, lin_error>>
  /\ UNCHANGED <<lin_in, lin_out, solve_vars, call_vars>>

\* linear_solve line 117: solver.compute
LinearCompute ==
  /\ lin_pc = "compute"
  /\ \E in \in ComputeInputs :
       lin_out' = LinearSolver_compute(lin_in.solver, lin_state, in)
  /\ lin_pc' = "result"
  /\ UNCHANGED <<lin_in, lin_state, lin_sol, lin_error, solve_vars, call_vars>>

\* linear_solve lines 118-126: the NaN check, the throw and the return
LinearResult ==
  /\ lin_pc = "result"
  /\ LET res == linear_result(lin_out.result, lin_out.has_nans)
     IN IF lin_in.throw /\ res # "successful"
        THEN /\ lin_error' = error_of(res)
             /\ lin_pc' = "raised"
             /\ UNCHANGED lin_sol
        ELSE /\ lin_sol' = [built |-> TRUE, kind |-> "LinearSolution",
                            has_nans |-> lin_out.has_nans, result |-> res,
                            state |-> lin_state]
             /\ lin_pc' = "returned"
             /\ UNCHANGED lin_error
  /\ UNCHANGED <<lin_in, lin_state, lin_out, solve_vars, call_vars>>

LinearInit ==
  /\ SolveIdle
  /\ CallIdle
  /\ lin_pc = "start"
  /\ lin_in \in LinearInputs
  /\ lin_state = NoLinear
  /\ lin_out = NoLinear
  /\ lin_sol = NoLinear
  /\ lin_error = NoError

LinearNext == LinearStart \/ LinearCompute \/ LinearResult

LinearSpec == LinearInit /\ [][LinearNext]_vars

\* ------------------------------------------------------------ fixed_point
\* pytree structures: None, two leaf structures, and the pair of two structures
NoneStruct == 0
LeafStructs == {1, 2}
PairStruct(a, b) == 3 + ((a + b) * (a + b + 1)) \div 2 + b

\* the structures of y0 and of the value of the function
YStructs == LeafStructs \cup {PairStruct(1, 1), PairStruct(1, 2)}

FixedPointSolverKinds == {"AbstractRootFinder", "AbstractFixedPointSolver"}

\* the arguments of one fixed_point call, to _fixed_point.py or to
\* fixed_point.py: fn maps y to the value, its aux (if has_aux) is AuxAt(y)
FixedPointInputs ==
  [module : {"_fixed_point", "fixed_point"}, fn : [YVals -> YVals],
   has_aux : BOOLEAN, y0_struct : YStructs, f_struct : YStructs,
   aux_struct : LeafStructs, solver : FixedPointSolverKinds]

\* what calling the function the caller passed returns at y
UserFn(in) ==
  [y \in YVals |->
     IF in.has_aux THEN [has_aux |-> TRUE, out |-> in.fn[y], aux |-> AuxAt(y)]
     ELSE [has_aux |-> FALSE, out |-> in.fn[y], aux |-> None]]

\* jax.eval_shape of the function the caller passed
UserFnStruct(in) ==
  IF in.has_aux THEN PairStruct(in.f_struct, in.aux_struct) ELSE in.f_struct

\* misc.py NoneAux: (fn(...), None)
NoneAux(fn) == [y \in DOMAIN fn |-> [has_aux |-> TRUE, out |-> fn[y].out, aux |-> None]]

\* _ToRootFn of both modules: out - y, with the aux when there is one
ToRootFn(fn) ==
  [y \in DOMAIN fn |-> [has_aux |-> fn[y].has_aux, out |-> fn[y].out - y,
                        aux |-> fn[y].aux]]

CallRaised(err) == [called |-> TRUE, raised |-> TRUE, error |-> err]

\* the call an entry point ends in
CallOf(entry, fn, slv, rewrite_fn) ==
  [called |-> TRUE, raised |-> FALSE, entry |-> entry, fn |-> fn,
   solver |-> slv, rewrite_fn |-> rewrite_fn]

\* _fixed_point.py fixed_point
fixed_point_new(in) ==
  LET fn == IF ~in.has_aux THEN NoneAux(UserFn(in)) ELSE UserFn(in)
      f_struct == in.f_struct
  IN IF in.y0_struct # f_struct
     THEN CallRaised(ValueError("The input and output of fixed_point_fn must have the same structure"))
     ELSE IF in.solver = "AbstractRootFinder"
     THEN CallOf("iterative_solve", ToRootFn(fn), in.solver, "_root")
     ELSE CallOf("iterative_solve", fn, in.solver, "_fixed_point")

\* fixed_point.py fixed_point
fixed_point_old(in) ==
  IF in.y0_struct # UserFnStruct(in)
  THEN CallRaised(ValueError("The input and output of fixed_point_fn must have the same structure"))
  ELSE IF in.solver = "AbstractRootFinder"
  THEN CallOf("root_find", ToRootFn(UserFn(in)), in.solver, "_root")
  ELSE CallOf("iterative_solve", UserFn(in), in.solver, "_fixed_point")

fixed_point(in) ==
  IF in.module = "_fixed_point" THEN fixed_point_new(in) ELSE fixed_point_old(in)

FixedPointCall ==
  /\ call_pc = "start"
  /\ call_out' = fixed_point(call_in)
  /\ call_pc' = "done"
  /\ UNCHANGED <<call_in, solve_vars, linear_vars>>

FixedPointInit ==
  /\ SolveIdle
  /\ LinearIdle
  /\ call_pc = "start"
  /\ call_in \in FixedPointInputs
  /\ call_out = NoCall

FixedPointSpec == FixedPointInit /\ [][FixedPointCall]_vars

\* ------------------------------------------------- ClassicalTrustRegion
\* largest magnitude of the function values and predicted reductions
MaxF == 2

FEq(a, b) ==
  /\ a.k = b.k
  /\ a.k = "fin" => a.n * b.d = b.n * a.d

\* solver/trust_region.py ClassicalTrustRegion fields
high_cutoff == Fin(99, 100)
low_cutoff == Fin(1, 100)
high_constant == Fin(35, 10)
low_constant == Fin(25, 100)

TRFloats == {Fin(n, 1) : n \in (-MaxF)..MaxF} \cup {FInf, FNan}

\* the trust region radii a step is called at
TRRadii == {Fin(1, 1), Fin(2, 1)}

\* one ClassicalTrustRegion.step call: the radius y, the state (f_prev,
\* finished), what problem.fn returns at y (f_new), the predicted reduction,
\* and which way of predicting the reduction the options offer
TRInputs ==
  [y : TRRadii, f_prev : TRFloats, finished : BOOLEAN, f_new : TRFloats,
   predicted_reduction : TRFloats,
   options : {"vector_operator", "predicted_reduction", "none"}]

ClassicalTrustRegion_step(in) ==
  IF in.options = "none"
  THEN CallRaised(ValueError("Need a method to predict reduction."))
  ELSE LET predicted_reduction == in.predicted_reduction
           finished == FLt(in.f_new,
                           FAdd(in.f_prev, FMul(low_cutoff, predicted_reduction)))
           good == FLt(in.f_new,
                       FAdd(in.f_prev, FMul(high_cutoff, predicted_reduction)))
           bad == FGt(in.f_new,
                      FAdd(in.f_prev, FMul(low_cutoff, predicted_reduction)))
           new_y0 == IF good THEN FMul(in.y, high_constant) ELSE in.y
           new_y == IF bad THEN FMul(in.y, low_constant) ELSE new_y0
       IN [called |-> TRUE, raised |-> FALSE, new_y |-> new_y,
           state |-> [f_prev |-> in.f_new, finished |-> finished]]

TrustRegionStep ==
  /\ call_pc = "start"
  /\ call_out' = ClassicalTrustRegion_step(call_in)
  /\ call_pc' = "done"
  /\ UNCHANGED <<call_in, solve_vars, linear_vars>>

TrustRegionInit ==
  /\ SolveIdle
  /\ LinearIdle
  /\ call_pc = "start"
  /\ call_in \in TRInputs
  /\ call_out = NoCall

TrustRegionSpec == TrustRegionInit /\ [][TrustRegionStep]_vars

\* ------------------------------------------------- iterative dual descents
\* _solver/iterative_dual.py on a one-dimensional problem with
\* gauss_newton=False: the operator B and the vector v are scalars and the
\* norm is the absolute value

\* jnp.finfo(delta.dtype).eps in single precision
eps == Fin(1, 8388608)

\* _IndirectDualRootFind(self.gauss_newton, 1e-3)
converged_tol == Fin(1, 1000)

\* max_steps=32 of the inner root_find
root_find_max_steps == 32

\* the 1e-3 of the bracket fallback, line 146
bracket_fraction == Fin(1, 1000)

\* descent_state.operator is None
NoOperator == 99

\* descent_state.operator: None or a nonsingular B
DualOperators == {NoOperator, -2, 1, 2}

\* descent_state.vector
DualVectors == {-2, 0, 1}

\* the trust region radii both descents are called at
DualDeltas == {Fin(0, 1), Fin(1, 2), Fin(1, 1), Fin(2, 1), FInf, FNan}

\* radii at and just above machine epsilon
TinyDeltas == {eps, Fin(1, 4194304)}

\* IndirectIterativeDual.lambda_0
Lambda0s == {Fin(0, 1), Fin(1, 1)}

\* what comparison_fn and its derivative evaluate to at the point a
\* root-find step evaluates them at
RootFVals == {Fin(-1, 1), Fin(0, 1), Fin(1, 1)}
RootGradVals == {Fin(-1, 1), Fin(0, 1), Fin(1, 1)}
RootStepInputs == [f_val : RootFVals, f_grad : RootGradVals]

\* one descent call
DualInputs ==
  [entry : {"DirectIterativeDual"}, operator : DualOperators,
   vector : DualVectors, delta : DualDeltas \cup TinyDeltas,
   lambda_0 : {Fin(0, 1)}]
  \cup
  [entry : {"IndirectIterativeDual"}, operator : DualOperators,
   vector : DualVectors, delta : DualDeltas, lambda_0 : Lambda0s]

\* jnp.maximum
FMax(a, b) ==
  IF a.k = "nan" \/ b.k = "nan" THEN FNan
  ELSE IF FLt(a, b) THEN b ELSE a

\* _IndirectDualRootFind.init with gauss_newton=False
IndirectDualRootFind_init(y, options) ==
  LET delta == options.delta
      grad == Fin(options.vector, 1)
      delta_nonzero == FGt(delta, eps)
      safe_delta == IF delta_nonzero THEN delta ELSE Fin(1, 1)
      upper_bound == IF delta_nonzero THEN FDiv(FAbs(grad), safe_delta) ELSE FInf
  IN [delta |-> delta, y |-> y, y_prev |-> y, lower_bound |-> Fin(0, 1),
      upper_bound |-> upper_bound, step |-> 0]

\* _IndirectDualRootFind.step; the new_y that lines 142-149 build from
\* lambda_in_bounds is reassigned by line 160 before anything reads it
IndirectDualRootFind_step(y, state, in) ==
  LET y_or_zero == IF state.step = 0 THEN Fin(0, 1) ELSE y
      f_val == in.f_val
      f_grad == in.f_grad
      grad_nonzero == FLt(f_grad, eps)
      safe_grad == IF grad_nonzero THEN f_grad ELSE Fin(1, 1)
      factor == IF grad_nonzero THEN FDiv(f_val, safe_grad) ELSE FInf
      upper_bound == IF FLt(f_val, Fin(0, 1)) THEN y ELSE state.upper_bound
      lower_bound == FMax(state.lower_bound, FSub(y, factor))
      diff == FMul(FNeg(FDiv(FSub(f_val, state.delta), state.delta)), factor)
      new_y == IF state.step = 0 THEN y ELSE FAdd(y, diff)
      new_state ==
        [delta |-> state.delta, y |-> new_y, y_prev |-> y,
         lower_bound |-> IF state.step = 0 /\ grad_nonzero THEN FNeg(factor)
                         ELSE lower_bound,
         upper_bound |-> IF state.step = 0 THEN state.upper_bound ELSE upper_bound,
         step |-> state.step + 1]
  IN [y |-> FMax(new_y, Fin(0, 1)), state |-> new_state, evaluated_at |-> y_or_zero]

\* _IndirectDualRootFind.terminate
IndirectDualRootFind_terminate(state) ==
  LET at_least_two == state.step >= 2
      interval_size == FAbs(FSub(state.upper_bound, state.lower_bound))
      interval_converged == FLt(interval_size, converged_tol)
      y_converged == FLt(FAbs(FSub(state.y, state.y_prev)), converged_tol)
      converged == interval_converged \/ y_converged
  IN [stop |-> converged /\ at_least_two, result |-> "successful"]

\* lx.linear_solve(operator, vector, ..., throw=False) on a 1 x 1 operator:
\* the division, NaN through a non-finite operator, and the singular code
\* for a non-finite solution
DualSolve(operator, vector) ==
  LET value == IF FIsFinite(operator) THEN FDiv(vector, operator) ELSE FNan
  IN [value |-> value,
      result |-> IF FIsFinite(value) THEN "successful" ELSE "linear_singular"]

DualReturn(diff, res) ==
  [called |-> TRUE, raised |-> FALSE, diff |-> diff, result |-> res]

\* _DirectIterativeDual.__call__: the damping is the delta it is called with
DirectDual_call(delta, descent_state) ==
  LET vector == Fin(descent_state.vector, 1)
      operator == FAdd(Fin(descent_state.operator, 1), FMul(delta, Fin(1, 1)))
      linear_soln == DualSolve(operator, vector)
  IN DualReturn(FNeg(linear_soln.value), linear_soln.result)

\* a direct descent that damps by delta itself
DirectIterativeDual_call_damp_by_delta(in) ==
  IF in.operator = NoOperator
  THEN CallRaised(ValueError("operator must be passed to DirectIterativeDual. Note that operator_inv is not currently supported for this descent."))
  ELSE LET delta_nonzero == FGt(in.delta, eps)
           linear_soln == DualSolve(FAdd(Fin(in.operator, 1), in.delta),
                                    Fin(in.vector, 1))
       IN DualReturn(IF delta_nonzero THEN FNeg(linear_soln.value) ELSE Fin(0, 1),
                     linear_soln.result)

\* DirectIterativeDual.__call__
DirectIterativeDual_call(in) ==
  IF in.operator = NoOperator
  THEN CallRaised(ValueError("operator must be passed to DirectIterativeDual. Note that operator_inv is not currently supported for this descent."))
  ELSE LET delta_nonzero == FGt(in.delta, eps)
           vector == Fin(in.vector, 1)
           damping == IF delta_nonzero THEN FDiv(Fin(1, 1), in.delta) ELSE FInf
           operator == FAdd(Fin(in.operator, 1), FMul(damping, Fin(1, 1)))
           linear_soln == DualSolve(operator, vector)
           no_diff == Fin(0, 1)
           diff == IF delta_nonzero THEN FNeg(linear_soln.value) ELSE no_diff
       IN DualReturn(diff, linear_soln.result)

\* IndirectIterativeDual.__call__ up to the lax.cond: the Newton solve and
\* the branch taken
IndirectIterativeDual_newton(in) ==
  LET newton_soln == DualSolve(Fin(in.operator, 1), FNeg(Fin(in.vector, 1)))
      newton_step == FNeg(newton_soln.value)
      newton_norm == FAbs(newton_step)
  IN [newton_step |-> newton_step, newton_result |-> newton_soln.result,
      accept |-> FLt(newton_norm, in.delta)]

\* reject_newton's root_find call: iterative_solve starts the loop on
\* y0 = lambda_0 and the state solver.init builds from root_find_options
RootFindStart(in) ==
  LET state0 == IndirectDualRootFind_init(in.lambda_0,
                  [vector |-> in.vector, operator |-> in.operator, delta |-> in.delta])
  IN [called |-> TRUE, raised |-> FALSE, branch |-> "reject_newton",
      returned |-> FALSE, y0 |-> in.lambda_0, init_state |-> state0,
      carry |-> [y |-> in.lambda_0, state |-> state0, num_steps |-> 0],
      evaluated_at |-> <<>>]

\* the loop condition of the inner root_find (adjoint._while_loop on
\* max_steps=32 and the solver's terminate)
root_find_cond(val) ==
  /\ val.num_steps < root_find_max_steps
  /\ ~IndirectDualRootFind_terminate(val.state).stop

\* a descent is called
DualCall ==
  /\ call_pc = "start"
  /\ IF call_in.entry = "DirectIterativeDual"
     THEN call_out' = DirectIterativeDual_call(call_in) /\ call_pc' = "done"
     ELSE IF call_in.operator = NoOperator
     THEN /\ call_out' = CallRaised(ValueError("operator must be passed to  IndirectDirectIterativeDual. Note that operator_inv is not currently supported for this descent."))
          /\ call_pc' = "done"
     ELSE LET newton == IndirectIterativeDual_newton(call_in)
          IN IF newton.accept
             THEN /\ call_out' = DualReturn(newton.newton_step, newton.newton_result)
                                   @@ [branch |-> "accept_newton"]
                  /\ call_pc' = "done"
             ELSE /\ call_out' = RootFindStart(call_in)
                  /\ call_pc' = "root_find"
  /\ UNCHANGED <<call_in, solve_vars, linear_vars>>

\* one step of the inner root_find (explored up to MaxSteps steps)
RootFindStep ==
  /\ call_pc = "root_find"
  /\ root_find_cond(call_out.carry)
  /\ call_out.carry.num_steps < MaxSteps
  /\ \E in \in RootStepInputs :
       LET val == call_out.carry
           out == IndirectDualRootFind_step(val.y, val.state, in)
       IN call_out' = [call_out EXCEPT
                         !.carry = [y |-> out.y, state |-> out.state,
                                    num_steps |-> val.num_steps + 1],
                         !.evaluated_at = Append(@, out.evaluated_at)]
  /\ UNCHANGED <<call_pc, call_in, solve_vars, linear_vars>>

\* the inner root_find returns and reject_newton takes the direct step at
\* the value it returned
RootFindReturn ==
  /\ call_pc = "root_find"
  /\ ~root_find_cond(call_out.carry)
  /\ LET lambda_out == call_out.carry.y
         direct == DirectDual_call(lambda_out, call_in)
     IN call_out' = [call_out EXCEPT !.returned = TRUE]
                    @@ [lambda_out |-> lambda_out, diff |-> direct.diff,
                        result |-> direct.result]
  /\ call_pc' = "done"
  /\ UNCHANGED <<call_in, solve_vars, linear_vars>>

DualInit ==
  /\ SolveIdle
  /\ LinearIdle
  /\ call_pc = "start"
  /\ call_in \in DualInputs
  /\ call_out = NoCall

DualNext == DualCall \/ RootFindStep \/ RootFindReturn

DualSpec == DualInit /\ [][DualNext]_vars

\* ------------------------------------------------------------ properties
Terminate == SolverTerminate(solver, carry.y, carry.state)

InitTerminate == SolverTerminate(solver, y0, init_state)

Finite == max_steps # None

LoopDone == pc \in {"final", "solved", "returned", "raised"}

\* C1: terminate is evaluated on the current (y, state) before every step:
\* solver.step is never called on a (y, state) on which terminate reports
\* stop, and when terminate already holds on the init state no step runs and
\* num_steps stays 0.
C1_TerminateBeforeStep ==
  /\ ~stepped_on_stop
  /\ InitTerminate.stop => (steps_run = 0 /\ carry.num_steps = 0 /\ pc # "body")

\* a solve of a repository solver stopped by terminate with budget left
C1_Witness ==
  /\ driver = "iterate" /\ solver \in RepoSolvers /\ Finite
  /\ pc = "final" /\ Terminate.stop
  /\ steps_run >= 2 /\ steps_run < max_steps

\* C2: for finite max_steps the loop of _iterate stops exactly when terminate
\* reports stop or num_steps = max_steps, and when it stopped with stop false
\* and a successful solver result, the final result is max_steps_reached.
C2_LoopExit ==
  (driver = "iterate" /\ Finite) =>
    /\ pc = "final" => (Terminate.stop \/ carry.num_steps = max_steps)
    /\ pc = "body" => (~Terminate.stop /\ carry.num_steps < max_steps)
    /\ (pc \in {"solved", "returned", "raised"} /\ ~Terminate.stop
          /\ Terminate.result = "successful")
         => (result = "max_steps_reached" /\ carry.num_steps = max_steps)

C2_Witness ==
  /\ driver = "iterate" /\ solver \in RepoSolvers /\ Finite /\ max_steps >= 2
  /\ pc = "solved" /\ ~Terminate.stop /\ Terminate.result = "successful"
  /\ result = "max_steps_reached"

\* C3: in every reachable state of a solve with finite max_steps,
\* num_steps <= max_steps, under _iterate and under both branches of _solve.
C3_NumStepsBounded == Finite => carry.num_steps <= max_steps

C5_StepCapResult ==
  (solver \in RepoSolvers /\ driver # "solve_forward" /\ Finite
     /\ pc \in {"solved", "returned", "raised"}
     /\ carry.num_steps = max_steps /\ ~Terminate.stop)
    => /\ result = "max_steps_reached"
       /\ carry.state = (IF max_steps = 0 THEN init_state ELSE last_step.state)

\* C6: a result of max_steps_reached implies num_steps = max_steps, whatever
\* the inner linear solves and line searches reported.
C6_MaxStepsReachedMeansCap ==
  (solver \in RepoIterativeSolvers /\ driver = "iterate" /\ Finite
     /\ pc \in {"solved", "returned", "raised"} /\ result = "max_steps_reached")
    => carry.num_steps = max_steps

\* C7: with throw set iterative_solve raises iff the final result is not
\* successful, and the error is the one of that result code; with throw unset
\* it never raises and the Solution carries that code.
C7_ThrowIffNotSuccessful ==
  (driver = "iterate" /\ pc \in {"returned", "raised"}) =>
    /\ (pc = "raised") <=> (throw /\ result # "successful")
    /\ pc = "raised" =>
         (error.kind = result /\ error.message = RESULTS_message[result])
    /\ pc = "returned" => error = NoError
    /\ sol.result = result
    /\ result = final_result(Terminate.stop, Terminate.result)

C7_Witness ==
  /\ driver = "iterate" /\ solver \in RepoSolvers
  /\ pc = "raised" /\ throw /\ result = "nonlinear_divergence"
  /\ error.message = "Nonlinear solve diverged."

\* C8: across the states of one solve the result code of terminate, once
\* non-successful, is never successful again at a later state.
C8_ResultMonotonic ==
  [][(solver \in RepoIterativeSolvers /\ Terminate.result # "successful")
       => (Terminate.result # "successful")']_vars

LinearSolveSolvers ==
  {"Newton", "Chord", "GaussNewtonLevenbergMarquardt", "AbstractGaussNewton"}

\* C9: when the linear solve inside a step is not successful, the step
\* returns without raising, the code is stored in the new state, the next
\* terminate reports stop with that code, and no further step runs.
C9_LinearFailureStops ==
  (solver \in LinearSolveSolvers /\ last_inner \notin {"none", "successful"})
    => /\ pc # "step_raised"
       /\ pc # "body"
       /\ carry.state.result = last_inner
       /\ Terminate.stop /\ Terminate.result = last_inner

GradientSolvers == {"GradientDescent", "GradOnly"}

\* C10: a line search that ends with max_steps_reached makes the outer step
\* record successful without raising; every other non-successful line-search
\* code is recorded unchanged and stops the outer solve at the next terminate.
C10_LineSearchResult ==
  (solver \in GradientSolvers /\ last_inner \notin {"none", "successful"})
    => /\ pc # "step_raised"
       /\ last_inner = "max_steps_reached" => carry.state.result = "successful"
       /\ last_inner # "max_steps_reached" =>
            (carry.state.result = last_inner /\ Terminate.stop /\ pc # "body")

\* C11: when terminate reports nonlinear_divergence on the final (y, state) of
\* an _iterate solve, the result of the solve and of its Solution is
\* nonlinear_divergence, also when the loop ended on the step cap with stop
\* false.
C11_DivergenceKept ==
  (driver = "iterate" /\ pc \in {"solved", "returned", "raised"}
     /\ Terminate.result = "nonlinear_divergence")
    => /\ result = "nonlinear_divergence"
       /\ sol.built => sol.result = "nonlinear_divergence"

\* a repository solver ended by the step cap while terminate reports
\* nonlinear_divergence with stop false
C11_Witness ==
  /\ driver = "iterate" /\ solver \in RepoIterativeSolvers /\ Finite
  /\ pc = "returned" /\ carry.num_steps = max_steps /\ ~Terminate.stop
  /\ Terminate.result = "nonlinear_divergence"
  /\ sol.result = "nonlinear_divergence"

\* the dispatch table of the Auto solver, row by row
C12_Table(operator) ==
  LET square == operator.in_size = operator.out_size
  IN CASE square /\ operator.symmetric /\ ~operator.maybe_singular -> "Cholesky"
       [] square /\ operator.symmetric /\ operator.maybe_singular -> "CG"
       [] square /\ ~operator.symmetric /\ ~operator.maybe_singular -> "LU"
       [] square /\ ~operator.symmetric /\ operator.maybe_singular -> "SVD"
       [] ~square -> "SVD"

C12_SolverOf(token) ==
  CASE token = "Cholesky" -> "solvers.Cholesky"
    [] token = "CG" -> "solvers.CG"
    [] token = "LU" -> "solvers.LU"
    [] token = "SVD" -> "solvers.SVD"

\* C12: AutoLinearSolver.init selects the concrete solver by the table
\* (square symmetric nonsingular -> Cholesky, square symmetric maybe-singular
\* -> CG, square asymmetric nonsingular -> LU, square asymmetric
\* maybe-singular -> SVD, non-square -> SVD), and AutoLinearSolver.compute
\* runs exactly that solver on the state that solver's init produced.
C12_AutoDispatch ==
  (lin_pc \in {"compute", "result", "returned", "raised"}
     /\ lin_in.solver = "AutoLinearSolver" /\ lin_state # NoLinear) =>
    LET token == C12_Table(lin_in.operator)
        expected == C12_SolverOf(token)
    IN /\ lin_state.token = token
       /\ lin_state.state = AutoSolver_init(expected, lin_in.operator).state
       /\ lin_out # NoLinear =>
            (lin_out.ran = expected /\ lin_out.on = lin_state.state)

\* a square symmetric maybe-singular operator solved by CG through the
\* dispatcher
C12_Witness ==
  /\ lin_pc = "returned" /\ lin_in.solver = "AutoLinearSolver"
  /\ lin_in.operator.in_size = lin_in.operator.out_size
  /\ lin_in.operator.symmetric /\ lin_in.operator.maybe_singular
  /\ lin_sol.kind = "LinearSolution" /\ lin_out.ran = "solvers.CG"

\* the code a finished linear_solve call reports: the result of the
\* LinearSolution it returned, or the code of the error it raised
C13_Code == IF lin_pc = "returned" THEN lin_sol.result ELSE lin_error.kind

\* C13: linear_solve reports linear_singular when the concrete solver
\* returned successful and the solution holds a NaN; otherwise it reports the
\* concrete solver's code unchanged (a non-successful code is never replaced,
\* a NaN-free successful solve stays successful and is returned).
C13_NanIsSingular ==
  (lin_pc \in {"returned", "raised"} /\ lin_out # NoLinear) =>
    /\ (lin_out.result = "successful" /\ lin_out.has_nans)
         => C13_Code = "linear_singular"
    /\ lin_out.result # "successful" => C13_Code = lin_out.result
    /\ (lin_out.result = "successful" /\ ~lin_out.has_nans)
         => (lin_pc = "returned" /\ lin_sol.result = "successful")
    /\ lin_pc = "raised" => lin_in.throw

\* a successful compute with a NaN in its solution, returned as linear_singular
C13_Witness ==
  /\ lin_pc = "returned" /\ lin_out # NoLinear
  /\ lin_out.result = "successful" /\ lin_out.has_nans
  /\ lin_sol.result = "linear_singular"

\* the structural precondition of each solver, as the solver documents it
C14_Violated(slv, operator) ==
  LET square == operator.in_size = operator.out_size
  IN CASE slv = "Cholesky" ->
            ~(operator.positive_semidefinite \/ operator.negative_semidefinite)
              \/ ~square
       [] slv = "Diagonal" -> ~square \/ ~operator.diagonal
       [] slv = "Tridiagonal" -> ~square \/ ~operator.tridiagonal

\* C14: Cholesky.init, Diagonal.init and Tridiagonal.init raise a caller error
\* when the operator violates the solver's structural precondition, before
\* any compute; the compute of these solvers runs only on operators that
\* satisfy it and always returns successful.
C14_PreconditionAtInit ==
  (lin_pc # "start" /\ lin_in.solver \in {"Cholesky", "Diagonal", "Tridiagonal"}) =>
    /\ (C14_Violated(lin_in.solver, lin_in.operator) /\ lin_in.structure_ok)
         => /\ lin_pc = "raised"
            /\ lin_error.kind = "ValueError"
            /\ lin_error.message # "Vector and operator structures do not match"
            /\ lin_state = NoLinear /\ lin_out = NoLinear /\ lin_sol = NoLinear
    /\ lin_out # NoLinear
         => /\ lin_out.result = "successful"
            /\ ~C14_Violated(lin_in.solver, lin_in.operator)

\* a non-square operator tagged positive semidefinite, rejected by Cholesky.init
C14_Witness ==
  /\ lin_pc = "raised" /\ lin_in.solver = "Cholesky"
  /\ lin_in.operator.positive_semidefinite
  /\ lin_in.operator.in_size # lin_in.operator.out_size
  /\ lin_error.kind = "ValueError" /\ lin_out = NoLinear

\* C15: on every iteration of _iterate the static part of the state returned
\* by solver.step is compared with that of the state passed in; a step that
\* changes it aborts the solve with an assertion failure, so every state the
\* loop carries has the static part of the init state.
C15_StaticStateKept ==
  driver = "iterate" =>
    /\ (last_step.called /\ ~last_step.raised /\ last_static # static_state)
         => (pc = "assert_failed" /\ error = AssertionError /\ sol = NoSolution)
    /\ pc = "assert_failed" => last_static # static_state
    /\ pc # "assert_failed" => last_static = InitStatic
    /\ static_state = InitStatic

\* a solve aborted by the assertion in its second or a later iteration
C15_Witness ==
  /\ driver = "iterate" /\ pc = "assert_failed" /\ steps_run >= 2
  /\ last_static # static_state /\ carry.num_steps = steps_run - 1

\* C16: fixed_point raises a caller error before any solver call when f(y0)
\* does not have the structure of y0; otherwise, given a root finder it runs
\* it on g(y) = f(y) - y with the aux of f passed through unchanged, and
\* given a native fixed-point solver it runs it on f itself.
C16_FixedPointAdapter ==
  call_pc = "done" =>
    /\ call_in.f_struct # call_in.y0_struct
         => (call_out.raised /\ call_out.error.kind = "ValueError")
    /\ call_in.f_struct = call_in.y0_struct
         => /\ ~call_out.raised
            /\ call_out.solver = call_in.solver
            /\ \A y \in YVals :
                 /\ call_out.fn[y].out =
                      (IF call_in.solver = "AbstractRootFinder"
                       THEN call_in.fn[y] - y ELSE call_in.fn[y])
                 /\ call_out.fn[y].aux =
                      (IF call_in.has_aux THEN AuxAt(y) ELSE None)

\* the three predicates on a Newton / Chord state, from their definitions
C17_Rate == FDiv(ToF(carry.state.diffsize), ToF(carry.state.diffsize_prev))

C17_Small == FLt(ToF(carry.state.diffsize), Fin(Resolution, 1))

C17_Diverged == ~FIsFinite(C17_Rate) \/ FGt(C17_Rate, Fin(2, 1))

C17_Converged ==
  LET factor == FDiv(FMul(ToF(carry.state.diffsize), C17_Rate),
                     FSub(Fin(1, 1), C17_Rate))
  IN FGt(factor, Fin(0, 1)) /\ FLt(factor, Fin(Kappa, 1))

\* C17: for Newton and Chord, terminate returns stop = true only in states
\* with step >= 2, and in a state with step >= 2 it returns stop = true iff
\* at least one of small, diverged, converged holds.
C17_NewtonStopGate ==
  solver \in LegacySolvers =>
    /\ Terminate.stop => carry.state.step >= 2
    /\ carry.state.step >= 2 =>
         (Terminate.stop <=> (C17_Small \/ C17_Diverged \/ C17_Converged))

\* a Newton / Chord solve stopped by converged alone after two or more steps
C17_Witness ==
  /\ solver \in LegacySolvers /\ pc = "final" /\ carry.state.step >= 2
  /\ Terminate.stop /\ C17_Converged /\ ~C17_Small /\ ~C17_Diverged

\* C18: for Newton and Chord the result code follows the precedence
\* small > diverged > converged: successful whenever small holds,
\* nonlinear_divergence when diverged holds and small does not, successful
\* when only converged holds; diverged is rate non-finite or rate > 2.
C18_NewtonPrecedence ==
  solver \in LegacySolvers =>
    /\ C17_Small => LegacyName(Terminate.result) = "successful"
    /\ (C17_Diverged /\ ~C17_Small)
         => LegacyName(Terminate.result) = "nonlinear_divergence"
    /\ (C17_Converged /\ ~C17_Small /\ ~C17_Diverged)
         => LegacyName(Terminate.result) = "successful"
    /\ LegacyName(Terminate.result) = "nonlinear_divergence"
         => (~FIsFinite(C17_Rate) \/ FGt(C17_Rate, Fin(2, 1)))

\* a Newton / Chord state after two steps that is small and diverged at once
C18_Witness ==
  /\ solver \in LegacySolvers /\ carry.state.step >= 2
  /\ C17_Small /\ C17_Diverged /\ Terminate.stop
  /\ Terminate.result = "successful"

\* the Newton / Chord state as a state of the Gauss-Newton solvers with no
\* linear-solve failure
C19_State ==
  [step |-> carry.state.step, diffsize |-> carry.state.diffsize,
   diffsize_prev |-> carry.state.diffsize_prev, result |-> "successful"]

\* C19: for the same (step, diffsize, diffsize_prev) and no linear-solve
\* failure, the terminate of both Gauss-Newton / Levenberg-Marquardt
\* implementations returns the same stop as Newton / Chord and, when it
\* stops, the same result code.
C19_SameTerminate ==
  solver \in LegacySolvers =>
    /\ GNLMTerminate(C19_State).stop = Terminate.stop
    /\ AbstractGaussNewtonTerminate(C19_State).stop = Terminate.stop
    /\ Terminate.stop =>
         /\ GNLMTerminate(C19_State).result = LegacyName(Terminate.result)
         /\ AbstractGaussNewtonTerminate(C19_State).result
              = LegacyName(Terminate.result)

\* good and bad of a ClassicalTrustRegion.step call, as the method is described
C20_Good ==
  FLt(call_in.f_new,
      FAdd(call_in.f_prev, FMul(high_cutoff, call_in.predicted_reduction)))

C20_Bad ==
  FGt(call_in.f_new,
      FAdd(call_in.f_prev, FMul(low_cutoff, call_in.predicted_reduction)))

\* C20: ClassicalTrustRegion.step returns as next radius delta * k_high if
\* good holds, otherwise delta * k_low if bad holds, otherwise delta, for
\* every f_new, f_prev and predicted reduction of either sign.
C20_RadiusUpdate ==
  (call_pc = "done" /\ ~call_out.raised) =>
    FEq(call_out.new_y,
        IF C20_Good THEN FMul(call_in.y, high_constant)
        ELSE IF C20_Bad THEN FMul(call_in.y, low_constant)
        ELSE call_in.y)

\* a <= b on extended reals (false when either is NaN)
C21_Le(a, b) == FLt(a, b) \/ (a.k # "nan" /\ FEq(a, b))

\* decrease_factor to the power n
RECURSIVE C21_Pow(_)
C21_Pow(n) == IF n = 0 THEN Fin(1, 1) ELSE FMul(decrease_factor, C21_Pow(n - 1))

\* C21: BacktrackingArmijo accepts a trial exactly when
\* f(y + step) <= f0 + backtrack_slope * min(<g, step>, 0) (non-strict, the
\* predicted reduction clipped at zero), once two evaluations were made; each
\* search step multiplies the trial step size by decrease_factor.
C21_ArmijoAccept ==
  solver = "BacktrackingArmijo" =>
    /\ carry.state.step > 1 =>
         (Terminate.stop <=>
            C21_Le(carry.state.f_delta,
                   FAdd(carry.state.f0,
                        FMul(backtrack_slope,
                             FMin(Fin(carry.state.vector * carry.state.diff, 1),
                                  Fin(0, 1))))))
    /\ FEq(carry.y, FMul(y0, C21_Pow(carry.num_steps)))

\* C22: BacktrackingArmijo.terminate never reports stop in a state with
\* step <= 1, whether or not compute_f0 was set: a search that stops has
\* made two evaluations or more and its accepted trial is not the compute_f0
\* evaluation at step size 0.
C22_TwoEvaluations ==
  solver = "BacktrackingArmijo" =>
    /\ carry.state.step <= 1 => ~Terminate.stop
    /\ carry.state.step = carry.num_steps
    /\ (LoopDone /\ Terminate.stop)
         => /\ steps_run >= 2
            /\ ~carry.state.compute_f0
            /\ last_step.aux.delta # Fin(0, 1)
            /\ init_state.compute_f0 => steps_run >= 2

\* a search started with compute_f0 set that accepts its second evaluation
C22_Witness ==
  /\ solver = "BacktrackingArmijo" /\ init_state.compute_f0
  /\ pc = "final" /\ Terminate.stop /\ steps_run = 2

\* a direct descent call has returned a step
C23_Returned ==
  /\ call_pc = "done" /\ call_in.entry = "DirectIterativeDual"
  /\ ~call_out.raised

C23_Damped == FAdd(Fin(call_in.operator, 1), FDiv(Fin(1, 1), call_in.delta))

C24_Returned ==
  /\ call_pc = "done" /\ call_in.entry = "IndirectIterativeDual"
  /\ ~call_out.raised

\* the unregularised Newton step: -p with B p = v
C24_NewtonStep == FNeg(FDiv(Fin(call_in.vector, 1), Fin(call_in.operator, 1)))

\* C24: IndirectIterativeDual returns the unregularised Newton step exactly
\* when its norm is < delta; otherwise it runs the inner root-find from a
\* fresh state at lambda_0 and returns the direct step at the lambda the
\* root-find returns.
C24_IndirectBranches ==
  C24_Returned =>
    /\ call_out.branch = "accept_newton" <=> FLt(FAbs(C24_NewtonStep), call_in.delta)
    /\ call_out.branch = "accept_newton" => FEq(call_out.diff, C24_NewtonStep)
    /\ call_out.branch = "reject_newton" =>
         /\ call_out.returned
         /\ call_out.y0 = call_in.lambda_0
         /\ call_out.init_state.step = 0
         /\ call_out.init_state.y = call_in.lambda_0
         /\ call_out.init_state.lower_bound = Fin(0, 1)
         /\ call_out.diff = DirectDual_call(call_out.lambda_out, call_in).diff

\* x = max(bracket_fraction * up, sqrt(up * lo)), stated without the root
C25_IsFallback(x, lo, up) ==
  LET a == FMul(bracket_fraction, up)
      b == FMul(up, lo)
  IN IF a.k = "nan" \/ b.k = "nan" \/ FLt(b, Fin(0, 1)) THEN x.k = "nan"
     ELSE \/ /\ FEq(x, a) /\ C21_Le(Fin(0, 1), a) /\ C21_Le(b, FMul(a, a))
          \/ /\ C21_Le(Fin(0, 1), x) /\ FEq(FMul(x, x), b) /\ C21_Le(a, x)

\* the iterate of the inner root-find lies outside its open bracket
C25_OutOfBracket ==
  LET val == call_out.carry
  IN ~(FLt(val.state.lower_bound, val.y) /\ FLt(val.y, val.state.upper_bound))

\* C25: whenever the iterate of the inner lambda root-finder lies outside
\* the open bracket (lower_bound, upper_bound), the iterate the step
\* produces is max(1e-3 * upper_bound, sqrt(upper_bound * lower_bound)).
C25_BracketFallback ==
  [][(call_pc = "root_find" /\ call_pc' = "root_find" /\ C25_OutOfBracket)
       => C25_IsFallback(call_out'.carry.y, call_out.carry.state.lower_bound,
                         call_out.carry.state.upper_bound)]_vars

\* C29: both branches of IndirectIterativeDual use one sign convention:
\* the accepted Newton step is -p with B p = v, the direct step at
\* lambda = 0.
C29_SameSign ==
  (C24_Returned /\ call_out.branch = "accept_newton") =>
    /\ FEq(FMul(Fin(call_in.operator, 1), FNeg(call_out.diff)), Fin(call_in.vector, 1))
    /\ FEq(call_out.diff, DirectDual_call(Fin(0, 1), call_in).diff)

\* a Newton or Chord step returns
C26_Stepped ==
  /\ pc = "body" /\ solver \in {"Newton", "Chord"}
  /\ last_step'.called /\ ~last_step'.raised
  /\ steps_run' = steps_run + 1

\* C26: Chord builds its linear-solver state once in init at y0, every step
\* leaves linear_state unchanged and solves against that cached state;
\* Newton's linear_state is None in every state and its step builds the
\* Jacobian at the current y.
C26_ChordCache ==
  /\ [](solver = "Chord" =>
          /\ init_state.linear_state = y0
          /\ carry.state.linear_state = init_state.linear_state)
  /\ [](solver = "Newton" => carry.state.linear_state = NoLinearState)
  /\ [][C26_Stepped =>
          /\ last_step'.state.linear_state = carry.state.linear_state
          /\ last_step'.solved_against =
               (IF solver = "Chord" THEN y0 ELSE carry.y)]_vars

\* a Chord solve two steps in, away from the point it factorised at
C26_Witness ==
  /\ solver = "Chord" /\ carry.num_steps >= 2 /\ carry.y # y0
  /\ last_step.called /\ ~last_step.raised
  /\ last_step.solved_against = y0

\* C27: whenever terminate reports stop on the final state, also when it
\* first does so on exactly the max_steps-th step, the result of the solve
\* and of its Solution is the solver's own result code (converging on the
\* last allowed step is successful, not max_steps_reached); a non-successful
\* solver code is returned unchanged even when stop is false.
C27_ResultPassthrough ==
  pc \in {"solved", "returned", "raised"} =>
    /\ Terminate.stop => result = Terminate.result
    /\ Terminate.result # "successful" => result = Terminate.result
    /\ sol.built => sol.result = result

\* a solve whose terminate first reports stop after the step that uses up
\* max_steps, and that returns successful
C27_Witness ==
  /\ pc = "returned" /\ Finite /\ max_steps >= 2
  /\ carry.num_steps = max_steps /\ steps_run = max_steps
  /\ ~stepped_on_stop /\ ~InitTerminate.stop
  /\ Terminate.stop /\ Terminate.result = "successful"
  /\ sol.result = "successful"

\* C28: within one ClassicalTrustRegion search f_prev stays the objective
\* value supplied at init across rejected trials: a trial that does not
\* finish the search hands the next trial the reference value it was
\* itself compared against.
C28_ReferenceKept ==
  (call_pc = "done" /\ ~call_out.raised /\ ~call_in.finished /\ ~call_out.state.finished)
    => FEq(call_out.state.f_prev, call_in.f_prev)

C30_Solvers == {"GradientDescent", "GaussNewtonLevenbergMarquardt", "AbstractGaussNewton"}

\* a step of one of these solvers returns
C30_Stepped ==
  /\ pc = "body" /\ solver \in C30_Solvers
  /\ last_step'.called /\ ~last_step'.raised
  /\ steps_run' = steps_run + 1

\* C30: for GradientDescent and both Gauss-Newton/Levenberg-Marquardt
\* solvers the aux a step returns is f's aux at the iterate the step was
\* called on, so after n >= 1 steps Solution.aux is the aux at y_{n-1},
\* not at Solution.value; after zero steps it is the zero-filled aux.
C30_AuxAtInput ==
  /\ [][C30_Stepped =>
          /\ last_step'.aux = AuxAt(carry.y)
          /\ carry'.aux = AuxAt(carry.y)]_vars
  /\ []((driver = "iterate" /\ solver \in C30_Solvers) =>
          /\ carry.num_steps = 0 => carry.aux = 0
          /\ carry.num_steps >= 1 => carry.aux = last_step.aux
          /\ sol.built => sol.aux = carry.aux)

\* a Solution after two steps or more whose aux is not the aux at its value
C30_Witness ==
  /\ driver = "iterate" /\ solver = "AbstractGaussNewton"
  /\ pc = "returned" /\ carry.num_steps >= 2
  /\ sol.aux = last_step.aux
  /\ sol.aux # AuxAt(sol.value)

====
